---- MODULE Spec2Model ----
(***************************************************************************)
(* Model of src/evaluation/evaluate.py: the script main() that reads       *)
(* OPENAI_API_KEY, builds one OpenAIModelConfiguration, constructs a        *)
(* RelevanceEvaluator and a CoherenceEvaluator, calls evaluate() once and   *)
(* prints the outcome.  The external library (azure.ai.evaluation) is       *)
(* opaque: each call into it either returns a value or raises, chosen       *)
(* nondeterministically.  One action per statement of main().               *)
(***************************************************************************)
EXTENDS Naturals, Sequences, FiniteSets

VARIABLES environ, pc, stdout, calls, model_config, relevance_eval,
          coherence_eval, result, exc

vars == <<environ, pc, stdout, calls, model_config, relevance_eval,
          coherence_eval, result, exc>>

----------------------------------------------------------------------------
(* Bounds of the model *)

\* number of distinct non-empty API keys the environment may hold
MaxKeys == 2
\* metric scores returned by the library range over 1..MaxScore
MaxScore == 2

----------------------------------------------------------------------------
(* Python values *)

None == [type |-> "NoneType"]

Digit == <<"1", "2", "3", "4", "5", "6", "7", "8", "9">>

\* the non-empty key strings
KeyValues == {"sk-" \o Digit[i] : i \in 1..MaxKeys}

\* os.environ after load_dotenv(): a dict that may lack OPENAI_API_KEY,
\* hold the empty string, or hold a key
Environs ==
    {[k \in {} |-> ""]} \cup {[OPENAI_API_KEY |-> v] : v \in KeyValues \cup {""}}

\* not os.environ.get(k): a missing key gives None, and None and "" are falsy
NotGetDefinedOnly(env, k) == k \notin DOMAIN env
NotGetInverted(env, k) == ~(k \notin DOMAIN env \/ env[k] = "")
NotGet(env, k) == k \notin DOMAIN env \/ env[k] = ""

\* the two lines printed when the key is missing
ErrorLines ==
    << "Error: OPENAI_API_KEY not found in environment variables.",
       "Please set OPENAI_API_KEY in your .env file or environment." >>

\* OpenAIModelConfiguration(type=..., model=..., api_key=..., base_url=...)
ModelConfigArgsOtherModel(key) ==
    [type |-> "openai", model |-> "gpt-4o", api_key |-> key,
     base_url |-> "https://api.openai.com/v1"]
ModelConfigArgs(key) ==
    [type |-> "openai", model |-> "gpt-4o-mini", api_key |-> key,
     base_url |-> "https://api.openai.com/v1"]

ColumnMapping ==
    [column_mapping |-> [query |-> "${data.query}", response |-> "${data.response}"]]

\* the keyword arguments of the evaluate() call
EvaluateArgsSwapped(rel, coh) ==
    [data |-> "data/evaluation_dataset.jsonl",
     evaluators |-> [relevance |-> coh, coherence |-> rel],
     evaluator_config |-> [relevance |-> ColumnMapping, coherence |-> ColumnMapping],
     output_path |-> "evaluation_results.json"]
EvaluateArgs(rel, coh) ==
    [data |-> "data/evaluation_dataset.jsonl",
     evaluators |-> [relevance |-> rel, coherence |-> coh],
     evaluator_config |-> [relevance |-> ColumnMapping, coherence |-> ColumnMapping],
     output_path |-> "evaluation_results.json"]

----------------------------------------------------------------------------
(* Exceptions *)

\* classes deriving from Exception, and those deriving from BaseException only
ExceptionClasses == {"RuntimeError", "ValueError", "KeyError", "TypeError"}
BaseOnlyClasses == {"KeyboardInterrupt"}

Messages == {"", "rate limit exceeded", "dataset not found"}

\* what a call into the library may raise
LibraryRaises ==
    [cls : {"RuntimeError", "ValueError"} \cup BaseOnlyClasses, arg : Messages]

\* except Exception as e
CatchesValueErrorOnly(e) == e.cls = "ValueError"
Catches(e) == e.cls \in ExceptionClasses

\* str(e): KeyError shows the repr of its key, the others their message
PyStrExc(e) == IF e.cls = "KeyError" THEN "'" \o e.arg \o "'" ELSE e.arg

\* f"Evaluation failed: {e}"
FailureLineNoText(e) == "Evaluation failed: "
FailureLine(e) == "Evaluation failed: " \o PyStrExc(e)

----------------------------------------------------------------------------
(* Results of evaluate() *)

MetricsValues == [relevance : 1..MaxScore, coherence : 1..MaxScore]

\* what evaluate() may return: a dict with 'metrics', a dict without, or None
Results ==
    {[type |-> "dict", items |-> [metrics |-> m, rows |-> "rows"]] : m \in MetricsValues}
    \cup {[type |-> "dict", items |-> [rows |-> "rows"]], None}

\* str() of the metrics dict
PyStrMetrics(m) ==
    "{'relevance': " \o Digit[m.relevance] \o ", 'coherence': "
        \o Digit[m.coherence] \o "}"

\* obj[k] succeeds
CanSubscript(obj, k) == obj.type = "dict" /\ k \in DOMAIN obj.items

\* the exception obj[k] raises when it fails
SubscriptError(obj, k) ==
    IF obj.type = "dict"
    THEN [cls |-> "KeyError", arg |-> k]
    ELSE [cls |-> "TypeError", arg |-> "'NoneType' object is not subscriptable"]

\* the line print(result["metrics"]) writes when the subscript succeeds
MetricsLine(obj) == PyStrMetrics(obj.items.metrics)

----------------------------------------------------------------------------
(* Control flow of main() *)

\* the statement that follows p when p completes normally
SuccSkipStart(p) ==
    CASE p = "check" -> "config"
      [] p = "config" -> "relevance"
      [] p = "relevance" -> "coherence"
      [] p = "coherence" -> "evaluate"
      [] p = "start" -> "evaluate"
      [] p = "evaluate" -> "print_complete"
      [] p = "print_complete" -> "print_aggregate"
      [] p = "print_aggregate" -> "print_metrics"
      [] p = "print_metrics" -> "print_saved"
      [] p = "print_saved" -> "returned"
SuccMetricsFirst(p) ==
    CASE p = "check" -> "config"
      [] p = "config" -> "relevance"
      [] p = "relevance" -> "coherence"
      [] p = "coherence" -> "start"
      [] p = "start" -> "evaluate"
      [] p = "evaluate" -> "print_metrics"
      [] p = "print_metrics" -> "print_complete"
      [] p = "print_complete" -> "print_aggregate"
      [] p = "print_aggregate" -> "print_saved"
      [] p = "print_saved" -> "returned"
Succ(p) ==
    CASE p = "check" -> "config"
      [] p = "config" -> "relevance"
      [] p = "relevance" -> "coherence"
      [] p = "coherence" -> "start"
      [] p = "start" -> "evaluate"
      [] p = "evaluate" -> "print_complete"
      [] p = "print_complete" -> "print_aggregate"
      [] p = "print_aggregate" -> "print_metrics"
      [] p = "print_metrics" -> "print_saved"
      [] p = "print_saved" -> "returned"

\* where control goes after the except block
AfterHandlerRetry == "evaluate"
AfterHandler == "returned"

\* statements inside the try block
InTryCallOnly(p) == p = "evaluate"
InTry(p) == p \in {"evaluate", "print_complete", "print_aggregate",
                   "print_metrics", "print_saved"}

\* where control goes when statement p raises e
OnRaise(p, e) == IF InTry(p) /\ Catches(e) THEN "handler" ELSE "raised"

Return(v) == [kind |-> "return", value |-> v]
Raise(e) == [kind |-> "raise", exc |-> e]
Call(fn, args, outcome) == [fn |-> fn, args |-> args, outcome |-> outcome]

----------------------------------------------------------------------------
Init ==
    /\ environ \in Environs
    /\ pc = "check"
    /\ stdout = <<>>
    /\ calls = <<>>
    /\ model_config = None
    /\ relevance_eval = None
    /\ coherence_eval = None
    /\ result = None
    /\ exc = None

\* if not os.environ.get("OPENAI_API_KEY"):
CheckKey ==
    /\ pc = "check"
    /\ pc' = IF NotGet(environ, "OPENAI_API_KEY") THEN "print_error" ELSE Succ(pc)
    /\ UNCHANGED <<environ, stdout, calls, model_config, relevance_eval,
                   coherence_eval, result, exc>>

\* the two print() calls and the return of the missing-key branch
PrintError ==
    /\ pc = "print_error"
    /\ stdout' = stdout \o ErrorLines
    /\ pc' = "returned"
    /\ UNCHANGED <<environ, calls, model_config, relevance_eval,
                   coherence_eval, result, exc>>

\* model_config = OpenAIModelConfiguration(..., api_key=os.environ[...], ...)
BuildConfig ==
    /\ pc = "config"
    /\ IF "OPENAI_API_KEY" \notin DOMAIN environ
       THEN /\ exc' = [cls |-> "KeyError", arg |-> "OPENAI_API_KEY"]
            /\ pc' = OnRaise(pc, exc')
            /\ UNCHANGED <<calls, model_config>>
       ELSE LET args == ModelConfigArgs(environ["OPENAI_API_KEY"]) IN
            \/ /\ model_config' = args
               /\ calls' = Append(calls,
                     Call("OpenAIModelConfiguration", args, Return(args)))
               /\ pc' = Succ(pc)
               /\ UNCHANGED exc
            \/ \E e \in LibraryRaises :
               /\ calls' = Append(calls,
                     Call("OpenAIModelConfiguration", args, Raise(e)))
               /\ exc' = e
               /\ pc' = OnRaise(pc, e)
               /\ UNCHANGED model_config
    /\ UNCHANGED <<environ, stdout, relevance_eval, coherence_eval, result>>

\* relevance_eval = RelevanceEvaluator(model_config)
BuildRelevance ==
    /\ pc = "relevance"
    /\ LET handle == [type |-> "RelevanceEvaluator", model_config |-> model_config] IN
       \/ /\ relevance_eval' = handle
          /\ calls' = Append(calls,
                Call("RelevanceEvaluator", model_config, Return(handle)))
          /\ pc' = Succ(pc)
          /\ UNCHANGED exc
       \/ \E e \in LibraryRaises :
          /\ calls' = Append(calls,
                Call("RelevanceEvaluator", model_config, Raise(e)))
          /\ exc' = e
          /\ pc' = OnRaise(pc, e)
          /\ UNCHANGED relevance_eval
    /\ UNCHANGED <<environ, stdout, model_config, coherence_eval, result>>

\* coherence_eval = CoherenceEvaluator(model_config)
BuildCoherence ==
    /\ pc = "coherence"
    /\ LET handle == [type |-> "CoherenceEvaluator", model_config |-> model_config] IN
       \/ /\ coherence_eval' = handle
          /\ calls' = Append(calls,
                Call("CoherenceEvaluator", model_config, Return(handle)))
          /\ pc' = Succ(pc)
          /\ UNCHANGED exc
       \/ \E e \in LibraryRaises :
          /\ calls' = Append(calls,
                Call("CoherenceEvaluator", model_config, Raise(e)))
          /\ exc' = e
          /\ pc' = OnRaise(pc, e)
          /\ UNCHANGED coherence_eval
    /\ UNCHANGED <<environ, stdout, model_config, relevance_eval, result>>

\* print("Starting evaluation...")
PrintStart ==
    /\ pc = "start"
    /\ stdout' = Append(stdout, "Starting evaluation...")
    /\ pc' = Succ(pc)
    /\ UNCHANGED <<environ, calls, model_config, relevance_eval,
                   coherence_eval, result, exc>>

\* result = evaluate(data=..., evaluators=..., evaluator_config=..., output_path=...)
Evaluate ==
    /\ pc = "evaluate"
    /\ LET args == EvaluateArgs(relevance_eval, coherence_eval) IN
       \/ \E r \in Results :
          /\ result' = r
          /\ calls' = Append(calls, Call("evaluate", args, Return(r)))
          /\ pc' = Succ(pc)
          /\ UNCHANGED exc
       \/ \E e \in LibraryRaises :
          /\ calls' = Append(calls, Call("evaluate", args, Raise(e)))
          /\ exc' = e
          /\ pc' = OnRaise(pc, e)
          /\ UNCHANGED result
    /\ UNCHANGED <<environ, stdout, model_config, relevance_eval, coherence_eval>>

\* print("Evaluation complete!")
PrintComplete ==
    /\ pc = "print_complete"
    /\ stdout' = Append(stdout, "Evaluation complete!")
    /\ pc' = Succ(pc)
    /\ UNCHANGED <<environ, calls, model_config, relevance_eval,
                   coherence_eval, result, exc>>

\* print("Aggregate Results:")
PrintAggregate ==
    /\ pc = "print_aggregate"
    /\ stdout' = Append(stdout, "Aggregate Results:")
    /\ pc' = Succ(pc)
    /\ UNCHANGED <<environ, calls, model_config, relevance_eval,
                   coherence_eval, result, exc>>

\* print(result["metrics"])
PrintMetrics ==
    /\ pc = "print_metrics"
    /\ IF CanSubscript(result, "metrics")
       THEN /\ stdout' = Append(stdout, MetricsLine(result))
            /\ pc' = Succ(pc)
            /\ UNCHANGED exc
       ELSE /\ exc' = SubscriptError(result, "metrics")
            /\ pc' = OnRaise(pc, exc')
            /\ UNCHANGED stdout
    /\ UNCHANGED <<environ, calls, model_config, relevance_eval,
                   coherence_eval, result>>

\* print(f"Detailed results saved to evaluation_results.json")
PrintSaved ==
    /\ pc = "print_saved"
    /\ stdout' = Append(stdout, "Detailed results saved to evaluation_results.json")
    /\ pc' = Succ(pc)
    /\ UNCHANGED <<environ, calls, model_config, relevance_eval,
                   coherence_eval, result, exc>>

\* except Exception as e: print(f"Evaluation failed: {e}")
Handler ==
    /\ pc = "handler"
    /\ stdout' = Append(stdout, FailureLine(exc))
    /\ exc' = None
    /\ pc' = AfterHandler
    /\ UNCHANGED <<environ, calls, model_config, relevance_eval,
                   coherence_eval, result>>

Next ==
    \/ CheckKey
    \/ PrintError
    \/ BuildConfig
    \/ BuildRelevance
    \/ BuildCoherence
    \/ PrintStart
    \/ Evaluate
    \/ PrintComplete
    \/ PrintAggregate
    \/ PrintMetrics
    \/ PrintSaved
    \/ Handler

Spec == Init /\ [][Next]_vars

----------------------------------------------------------------------------
(* Vocabulary of the properties *)

Terminated == pc \in {"returned", "raised"}

KeyUnset == "OPENAI_API_KEY" \notin DOMAIN environ
KeyEmpty == "OPENAI_API_KEY" \in DOMAIN environ /\ environ["OPENAI_API_KEY"] = ""
KeyPresent == "OPENAI_API_KEY" \in DOMAIN environ /\ environ["OPENAI_API_KEY"] # ""

CallsTo(fn) == {i \in DOMAIN calls : calls[i].fn = fn}
CallNames == [i \in DOMAIN calls |-> calls[i].fn]
Range(s) == {s[i] : i \in DOMAIN s}
IsPrefix(s, t) == Len(s) <= Len(t) /\ SubSeq(t, 1, Len(s)) = s

EvaluateRaised ==
    \E i \in CallsTo("evaluate") : calls[i].outcome.kind = "raise"
EvaluateReturned ==
    \E i \in CallsTo("evaluate") : calls[i].outcome.kind = "return"
\* the exception the evaluate() call raised, the value it returned
RaisedExc == calls[CHOOSE i \in CallsTo("evaluate") : TRUE].outcome.exc
ReturnedValue == calls[CHOOSE i \in CallsTo("evaluate") : TRUE].outcome.value

DerivesFromException(e) ==
    e.cls \notin {"KeyboardInterrupt", "SystemExit", "GeneratorExit"}
HasMetrics(r) == r.type = "dict" /\ "metrics" \in DOMAIN r.items

NothingAttempted ==
    /\ calls = <<>>
    /\ model_config = None
    /\ relevance_eval = None
    /\ coherence_eval = None
    /\ "Starting evaluation..." \notin Range(stdout)

TwoErrorLines ==
    << "Error: OPENAI_API_KEY not found in environment variables.",
       "Please set OPENAI_API_KEY in your .env file or environment." >>

----------------------------------------------------------------------------
\* C1: when OPENAI_API_KEY is unset, main() prints exactly the two error
\* lines in order, returns normally, and never constructs the model
\* configuration or an evaluator, never prints 'Starting evaluation...' and
\* never calls evaluate().
C1_UnsetKeyPrintsErrorAndReturns ==
    KeyUnset =>
        /\ NothingAttempted
        /\ pc \in {"check", "print_error", "returned"}
        /\ stdout = IF pc = "returned" THEN TwoErrorLines ELSE <<>>

C1_Witness == KeyUnset /\ pc = "returned" /\ Len(stdout) = 2

----------------------------------------------------------------------------
\* C2 (as stated): whenever evaluate() raises any exception, main() prints
\* 'Evaluation failed: <message>' and returns normally.
C2_AnyRaiseIsPrintedAndSwallowed ==
    (Terminated /\ EvaluateRaised) =>
        /\ pc = "returned"
        /\ stdout = << "Starting evaluation...",
                       "Evaluation failed: " \o RaisedExc.arg >>

\* C2 (amended): whenever evaluate() raises an exception that derives from
\* Exception, main() prints 'Evaluation failed: <message>' with that
\* exception's message and returns normally; it never ends by raising.
C2_ExceptionIsPrintedAndSwallowed ==
    (EvaluateRaised /\ DerivesFromException(RaisedExc)) =>
        /\ pc \in {"handler", "returned"}
        /\ pc = "returned" =>
              stdout = << "Starting evaluation...",
                          "Evaluation failed: " \o RaisedExc.arg >>

C2_Witness ==
    /\ pc = "returned"
    /\ EvaluateRaised
    /\ RaisedExc = [cls |-> "RuntimeError", arg |-> "rate limit exceeded"]
    /\ stdout[Len(stdout)] = "Evaluation failed: rate limit exceeded"

----------------------------------------------------------------------------
\* the output of a run whose evaluate() call returned metrics m
SuccessOutput(m) ==
    << "Starting evaluation...",
       "Evaluation complete!",
       "Aggregate Results:",
       PyStrMetrics(m),
       "Detailed results saved to evaluation_results.json" >>

\* C3 (as stated): whenever evaluate() returns a result, main() prints
\* 'Evaluation complete!', 'Aggregate Results:', the metrics and the
\* 'Detailed results saved ...' line, in this order, and no failure line.
C3_AnyResultPrintsFourLines ==
    (Terminated /\ EvaluateReturned) =>
        /\ Len(stdout) = 5
        /\ stdout[2] = "Evaluation complete!"
        /\ stdout[3] = "Aggregate Results:"
        /\ stdout[5] = "Detailed results saved to evaluation_results.json"

\* C3 (amended): whenever evaluate() returns a result that has a 'metrics'
\* field, main() prints 'Evaluation complete!', 'Aggregate Results:', the
\* value of that field and 'Detailed results saved to
\* evaluation_results.json', in this order, prints no failure line and
\* returns normally.
C3_ResultWithMetricsPrintsFourLines ==
    (EvaluateReturned /\ HasMetrics(ReturnedValue)) =>
        /\ IsPrefix(stdout, SuccessOutput(ReturnedValue.items.metrics))
        /\ pc # "raised" /\ pc # "handler"
        /\ pc = "returned" => stdout = SuccessOutput(ReturnedValue.items.metrics)

C3_Witness ==
    /\ pc = "returned"
    /\ EvaluateReturned
    /\ HasMetrics(ReturnedValue)
    /\ stdout[4] = "{'relevance': 2, 'coherence': 1}"

----------------------------------------------------------------------------
----------------------------------------------------------------------------
----------------------------------------------------------------------------
\* C6: every evaluate() call has data 'data/evaluation_dataset.jsonl',
\* output_path 'evaluation_results.json', an evaluators mapping with exactly
\* the keys 'relevance' and 'coherence' bound to the RelevanceEvaluator and
\* the CoherenceEvaluator built in this run, and an evaluator_config giving
\* both metrics the column mapping query -> '${data.query}',
\* response -> '${data.response}'.
C6_EvaluateArgumentsAreFixed ==
    \A i \in CallsTo("evaluate") :
        LET a == calls[i].args
            mapping == [column_mapping |->
                           [query |-> "${data.query}", response |-> "${data.response}"]]
        IN  /\ DOMAIN a = {"data", "evaluators", "evaluator_config", "output_path"}
            /\ a.data = "data/evaluation_dataset.jsonl"
            /\ a.output_path = "evaluation_results.json"
            /\ DOMAIN a.evaluators = {"relevance", "coherence"}
            /\ a.evaluators.relevance = relevance_eval
            /\ a.evaluators.coherence = coherence_eval
            /\ a.evaluators.relevance.type = "RelevanceEvaluator"
            /\ a.evaluators.coherence.type = "CoherenceEvaluator"
            /\ \E j \in CallsTo("RelevanceEvaluator") :
                   calls[j].outcome = [kind |-> "return", value |-> a.evaluators.relevance]
            /\ \E j \in CallsTo("CoherenceEvaluator") :
                   calls[j].outcome = [kind |-> "return", value |-> a.evaluators.coherence]
            /\ DOMAIN a.evaluator_config = {"relevance", "coherence"}
            /\ a.evaluator_config.relevance = mapping
            /\ a.evaluator_config.coherence = mapping

C6_Witness ==
    /\ Cardinality(CallsTo("evaluate")) = 1
    /\ EvaluateReturned
    /\ environ["OPENAI_API_KEY"] = "sk-1"

----------------------------------------------------------------------------
\* the fixed linear order of the steps of main()
StepOrder == << "check", "config", "relevance", "coherence", "start", "evaluate" >>
Rank(p) == CHOOSE i \in DOMAIN StepOrder : StepOrder[i] = p
IsStep(p) == p \in Range(StepOrder)

\* C7: main() runs one fixed linear sequence of steps (check the key, build
\* the configuration, construct the relevance evaluator, construct the
\* coherence evaluator, print 'Starting evaluation...', call evaluate(),
\* print the outcome); each step starts only when its predecessor has
\* completed, and evaluate() is never called before both evaluators exist
\* and 'Starting evaluation...' has been printed.
C7_StepsFollowFixedOrder ==
    /\ [](/\ IsPrefix(CallNames, << "OpenAIModelConfiguration", "RelevanceEvaluator",
                                     "CoherenceEvaluator", "evaluate" >>)
          /\ pc = "check" => (calls = <<>> /\ stdout = <<>>)
          /\ "Starting evaluation..." \in Range(stdout) =>
                 /\ stdout[1] = "Starting evaluation..."
                 /\ Len(calls) >= 3
                 /\ \A i \in 1..3 : calls[i].outcome.kind = "return"
                 /\ relevance_eval # None /\ coherence_eval # None
          /\ CallsTo("evaluate") # {} =>
                 /\ relevance_eval # None /\ coherence_eval # None
                 /\ stdout # <<>> /\ stdout[1] = "Starting evaluation..."
          /\ Len(stdout) > 1 => (KeyPresent => CallsTo("evaluate") # {}))
    /\ [][(IsStep(pc) /\ IsStep(pc') /\ pc' # pc) => Rank(pc') = Rank(pc) + 1]_vars

C7_Witness ==
    /\ pc = "print_complete"
    /\ Len(calls) = 4
    /\ stdout = << "Starting evaluation..." >>

----------------------------------------------------------------------------
ConstructorRaised ==
    \E i \in DOMAIN calls :
        /\ calls[i].fn \in {"OpenAIModelConfiguration", "RelevanceEvaluator",
                            "CoherenceEvaluator"}
        /\ calls[i].outcome.kind = "raise"

\* C8 (as stated): no execution of main() ends with an exception
\* propagating out of main(), also when construction of the model
\* configuration or of an evaluator fails.
C8_NeverPropagates == pc # "raised"

\* C8 (amended): main() handles two error outcomes, both ending with a
\* normal return: the missing credential, detected before anything else,
\* and a failure deriving from Exception during the guarded evaluation
\* block, caught and printed.  An exception propagates out of main()
\* exactly when construction of the model configuration or of an evaluator
\* raises, or when evaluate() raises an exception that does not derive from
\* Exception.
C8_PropagatesOnlyFromConstructionOrBaseException ==
    /\ (KeyUnset \/ KeyEmpty) => (pc # "raised" /\ NothingAttempted)
    /\ Terminated =>
          (pc = "raised" <=>
              \/ ConstructorRaised
              \/ EvaluateRaised /\ ~DerivesFromException(RaisedExc))
    /\ (pc = "returned" /\ KeyPresent) =>
          \/ stdout[Len(stdout)] = "Detailed results saved to evaluation_results.json"
          \/ /\ EvaluateRaised
             /\ stdout[Len(stdout)] = "Evaluation failed: " \o RaisedExc.arg
          \/ /\ EvaluateReturned
             /\ ~HasMetrics(ReturnedValue)

C8_Witness ==
    /\ pc = "raised"
    /\ ConstructorRaised
    /\ calls[Len(calls)].fn = "CoherenceEvaluator"
    /\ calls[Len(calls)].outcome.exc.cls = "ValueError"

----------------------------------------------------------------------------
\* str() of the exception that reading 'metrics' from r raises
MetricsErrorText(r) ==
    IF r.type = "dict" THEN "'metrics'" ELSE "'NoneType' object is not subscriptable"

\* C9: when evaluate() returns a result from which 'metrics' cannot be
\* read, main() prints 'Evaluation complete!' and 'Aggregate Results:' and
\* then 'Evaluation failed: <text>', never prints the 'Detailed results
\* saved to evaluation_results.json' line, and returns normally.
C9_CompleteThenFailed ==
    (EvaluateReturned /\ ~HasMetrics(ReturnedValue)) =>
        LET out == << "Starting evaluation...",
                      "Evaluation complete!",
                      "Aggregate Results:",
                      "Evaluation failed: " \o MetricsErrorText(ReturnedValue) >>
        IN  /\ IsPrefix(stdout, out)
            /\ pc # "raised"
            /\ pc # "print_saved"
            /\ "Detailed results saved to evaluation_results.json" \notin Range(stdout)
            /\ pc = "returned" => stdout = out

C9_Witness ==
    /\ pc = "returned"
    /\ EvaluateReturned
    /\ ReturnedValue = [type |-> "dict", items |-> [rows |-> "rows"]]
    /\ stdout[4] = "Evaluation failed: 'metrics'"

----------------------------------------------------------------------------
\* C10: an OPENAI_API_KEY set to the empty string is treated as unset
\* (the two error lines are printed and main() returns without constructing
\* anything or calling evaluate()), so the api_key of every model
\* configuration is a non-empty string.
C10_EmptyKeyIsMissingKey ==
    /\ KeyEmpty =>
          /\ NothingAttempted
          /\ pc \in {"check", "print_error", "returned"}
          /\ stdout = IF pc = "returned" THEN TwoErrorLines ELSE <<>>
    /\ \A i \in CallsTo("OpenAIModelConfiguration") : calls[i].args.api_key # ""
    /\ model_config # None => model_config.api_key # ""

C10_Witness == KeyEmpty /\ pc = "returned" /\ stdout = TwoErrorLines

====
